---- MODULE Spec2Model ----
(***************************************************************************)
(* TestLinkReporter: a mocha reporter that publishes test results to       *)
(* TestLink through one promise chain (this.promiseChain).                 *)
(*                                                                         *)
(* The model follows the reporter with reporter options                    *)
(* (validateReporterOptions, createTestPlan with auto-provisioning,        *)
(* publishTestResults with addTestCaseToTestPlan).  src/index.js holds a   *)
(* reporter without reporter options; it has the same promise chain,       *)
(* titleToCaseIds, suiteOptions and tcOptions.                             *)
(*                                                                         *)
(* The test runner emits EVENT_RUN_BEGIN before any test or suite          *)
(* notification; remote calls settle at any time, resolved or rejected.    *)
(*                                                                         *)
(* JavaScript values: undefined is 0 for ids and "" for strings, both      *)
(* falsy like undefined itself; every other value is truthy.  Durations    *)
(* and notes of a result do not influence any call that is made and are    *)
(* left out of the options record.                                         *)
(***************************************************************************)
EXTENDS Integers, Sequences, FiniteSets, TLC

VARIABLES
    phase,        \* "new", "error" (constructor threw) or "constructed"
    thrown,       \* message of the Error the constructor threw, "" if none
    opts,         \* options.reporterOptions
    runBegun,     \* EVENT_RUN_BEGIN was handled (registered with once)
    testplanid,   \* this.testplanid
    buildid,      \* this.buildid
    testproject,  \* this.testproject
    chain,        \* state of this.promiseChain up to the first pending callback
    queue,        \* then-callbacks appended to this.promiseChain, not yet started
    running,      \* locals of the async callback that is executing
    calls,        \* every call made on this.testlink, in the order made
    errors,       \* number of console.error calls
    skipped,      \* then-callbacks bypassed because the chain was rejected
    events,       \* test and suite notifications handled so far
    enq           \* every then-callback ever appended, in order

vars == <<phase, thrown, opts, runBegun, testplanid, buildid, testproject,
          chain, queue, running, calls, errors, skipped, events, enq>>

----------------------------------------------------------------------------
(* Bounds *)

\* test and suite notifications in one run
MaxEvents == 2
\* remote calls that reject in one run
MaxFailures == 1
\* then-callbacks appended to the chain in one run
MaxCallbacks == 5
\* constituent tests of a suite, where suites of every composition are taken
MaxTests == 4

----------------------------------------------------------------------------
(* Values *)

Undefined == 0
NoString == ""

\* options.reporterOptions when no --reporter-options is passed: `given` is
\* FALSE and every option reads undefined
NoOptions == [given |-> FALSE, URL |-> NoString, apiKey |-> NoString,
              testplanid |-> Undefined, buildid |-> Undefined, prefix |-> NoString]

\* truthiness of an id (number) and of a string
Truthy(v) == v # Undefined
TruthyStr(s) == s # NoString

ReporterOptions ==
    [given : {TRUE}, URL : {NoString, "http://tl"}, apiKey : {NoString, "key"},
     testplanid : {Undefined, 14}, buildid : {Undefined, 3},
     prefix : {NoString, "XPJ"}]

PlanIds == {21}
BuildIds == {31}

NoProject == [id |-> Undefined, prefix |-> NoString]
ProjectLists ==
    { <<[id |-> 8, prefix |-> "ABC"]>>,
      <<[id |-> 8, prefix |-> "ABC"], [id |-> 7, prefix |-> "XPJ"],
        [id |-> 9, prefix |-> "XPJ"]>> }

STATE_PASSED == "passed"
STATE_FAILED == "failed"
STATE_PENDING == "pending"
FAILED == "f"
PASSED == "p"

TestLists == { <<>>, <<STATE_PASSED, STATE_FAILED>> }

(* Titles, as sequences of characters *)
TitleMalformed == <<"a", " ", "[", "A", "-", "]", "[", "-", "1", "]">>
TitleTwo == <<"[", "A", "_", "-", "1", "2", "]", " ", "[", "[", "7", "-", "2", "]", "]">>
TitleDup == <<"s", "[", "B", "-", "2", "]", "[", "B", "-", "2", "]">>
\* the titles test and suite notifications are drawn from
TestTitles == {TitleMalformed, TitleTwo}
SuiteTitles == {TitleDup}

Digits == {"1", "2", "7"}
WordChars == Digits \cup {"a", "s", "A", "B", "_"}

----------------------------------------------------------------------------
(* titleToCaseIds: title.matchAll(/\[(\w+-\d+)\]/g) *)

RECURSIVE RunEnd(_, _, _)
\* first index at or after i whose character is not in S (a greedy S+ from i)
RunEnd(t, i, S) ==
    IF i <= Len(t) /\ t[i] \in S THEN RunEnd(t, i + 1, S) ELSE i

\* index of the closing bracket of a match starting at i, 0 if none
MatchAt(t, i) ==
    LET w == RunEnd(t, i + 1, WordChars)
        d == RunEnd(t, w + 1, Digits)
    IN  IF /\ t[i] = "["
           /\ w > i + 1
           /\ w <= Len(t) /\ t[w] = "-"
           /\ d > w + 1
           /\ d <= Len(t) /\ t[d] = "]"
        THEN d ELSE 0

RECURSIVE MatchAll(_, _)
MatchAll(t, i) ==
    IF i > Len(t) THEN <<>>
    ELSE IF MatchAt(t, i) # 0
         THEN <<SubSeq(t, i + 1, MatchAt(t, i) - 1)>> \o MatchAll(t, MatchAt(t, i) + 1)
         ELSE MatchAll(t, i + 1)

RECURSIVE MatchFirst(_, _)
\* faulty variant: the regular expression without the g flag, the first match only
MatchFirst(t, i) ==
    IF i > Len(t) THEN <<>>
    ELSE IF MatchAt(t, i) # 0 THEN <<SubSeq(t, i + 1, MatchAt(t, i) - 1)>>
    ELSE MatchFirst(t, i + 1)

titleToCaseIdsFirst(title) == MatchFirst(title, 1)

titleToCaseIds(title) == MatchAll(title, 1)

----------------------------------------------------------------------------
(* validateReporterOptions: the message of the Error thrown, "" if none *)

\* faulty variant: testplanid or buildid alone accepted in place of the pair
HasPlanOrBuildOrPrefix(o) ==
    Truthy(o.testplanid) \/ Truthy(o.buildid) \/ TruthyStr(o.prefix)

HasPlanOrPrefix(o) ==
    (Truthy(o.testplanid) /\ Truthy(o.buildid)) \/ TruthyStr(o.prefix)

validateReporterOptions(o) ==
    IF ~o.given THEN "Missing --reporter-options"
    ELSE IF ~HasPlanOrPrefix(o)
         THEN "Either testplanid or prefix must be specified in --reporter-options"
    ELSE IF ~TruthyStr(o.URL) THEN "Missing URL option in --reporter-options"
    ELSE IF ~TruthyStr(o.apiKey) THEN "Missing apiKey option in --reporter-options"
    ELSE ""

----------------------------------------------------------------------------
(* Calls on this.testlink *)

NoCase == <<>>

Call(verb, seq, caseId, plan, build, project, status) ==
    [verb |-> verb, seq |-> seq, caseId |-> caseId, plan |-> plan, build |-> build,
     project |-> project, status |-> status, outcome |-> "pending", ret |-> Undefined,
     ctxPlan |-> testplanid, ctxBuild |-> buildid]

InFlight == {i \in DOMAIN calls : calls[i].outcome = "pending"}

\* call i settles: resolved with value ret ("ok") or rejected ("err")
Settle(i, outcome, ret) == [calls EXCEPT ![i].outcome = outcome, ![i].ret = ret]

\* faulty variant: no .catch behind the callback, a rejection stays on the chain
CatchMissing(state) == state

\* .catch(console.error): the rejection is logged and the chain goes on fulfilled
Catch(state) == IF state = "rejected" THEN "fulfilled" ELSE state

(* Result options: suiteOptions, tcOptions *)

RECURSIVE EveryNotPassed(_)
\* faulty variant: suite.tests.every in place of suite.tests.some
EveryNotPassed(tests) ==
    IF tests = <<>> THEN TRUE
    ELSE Head(tests) # STATE_PASSED /\ EveryNotPassed(Tail(tests))

RECURSIVE SomeNotPassed(_)
\* suite.tests.some(t => t.state !== STATE_PASSED)
SomeNotPassed(tests) ==
    IF tests = <<>> THEN FALSE
    ELSE Head(tests) # STATE_PASSED \/ SomeNotPassed(Tail(tests))

suiteOptions(testcaseexternalid, tests, plan, build) ==
    [testcaseexternalid |-> testcaseexternalid,
     testplanid |-> plan,
     status |-> IF SomeNotPassed(tests) THEN FAILED ELSE PASSED,
     buildid |-> build,
     steps |-> [idx \in DOMAIN tests |->
                  [step_number |-> idx,
                   result |-> IF tests[idx] # STATE_PASSED THEN FAILED ELSE PASSED]]]

tcOptions(testcaseexternalid, err, plan, build) ==
    [testcaseexternalid |-> testcaseexternalid,
     testplanid |-> plan,
     status |-> IF err THEN FAILED ELSE PASSED,
     buildid |-> build,
     steps |-> <<>>]

\* faulty variant: optionsGen called while appending, outside the then-callback
\* (as publishTestResults of src/index.js does)
OptionsContextAtEnqueue(step) == [plan |-> step.enqPlan, build |-> step.enqBuild]

\* the run context optionsGen reads: it is called inside the then-callback, so it
\* reads this.testplanid and this.buildid when the callback runs
OptionsContext(step) == [plan |-> testplanid, build |-> buildid]

optionsGen(step) ==
    LET ctx == OptionsContext(step)
    IN  IF step.evKind = "suite"
        THEN suiteOptions(step.caseId, step.tests, ctx.plan, ctx.build)
        ELSE tcOptions(step.caseId, step.evKind = "fail", ctx.plan, ctx.build)

NoOpt == tcOptions(NoCase, FALSE, Undefined, Undefined)
NoFrame == [seq |-> -1, options |-> NoOpt]

\* projects.find(p => p.prefix === prefix)
RECURSIVE Find(_, _)
Find(projects, prefix) ==
    IF projects = <<>> THEN NoProject
    ELSE IF Head(projects).prefix = prefix THEN Head(projects)
    ELSE Find(Tail(projects), prefix)

----------------------------------------------------------------------------
Init ==
    /\ phase = "new"
    /\ thrown = ""
    /\ opts \in ReporterOptions \cup {NoOptions}
    /\ runBegun = FALSE
    /\ testplanid = Undefined
    /\ buildid = Undefined
    /\ testproject = NoProject
    /\ chain = "fulfilled"
    /\ queue = <<>>
    /\ running = NoFrame
    /\ calls = <<>>
    /\ errors = 0
    /\ skipped = 0
    /\ events = <<>>
    /\ enq = <<>>

(* constructor: validate, connect, start checkDevKey without waiting for it *)
Construct ==
    /\ phase = "new"
    /\ thrown' = validateReporterOptions(opts)
    /\ IF thrown' # ""
       THEN /\ phase' = "error"
            /\ UNCHANGED <<chain, calls>>
       ELSE /\ phase' = "constructed"
            /\ calls' = <<Call("checkDevKey", 0, NoCase, Undefined, Undefined, Undefined, "")>>
            /\ chain' = "pending"
    /\ UNCHANGED <<opts, runBegun, testplanid, buildid, testproject, queue, running,
                   errors, skipped, events, enq>>

(* then-callbacks *)

Step(kind, seq, ev, caseId, evKind, tests) ==
    [kind |-> kind, seq |-> seq, ev |-> ev, caseId |-> caseId, evKind |-> evKind,
     tests |-> tests, enqPlan |-> testplanid, enqBuild |-> buildid]

\* faulty variant: the supplied plan is taken only together with a supplied build
PreExistingPlanAndBuild(o) == Truthy(o.testplanid) /\ Truthy(o.buildid)

\* createTestPlan takes the supplied plan when options['testplanid'] is truthy
PreExistingPlan(o) == Truthy(o.testplanid)

(* EVENT_RUN_BEGIN: createTestPlan(reporterOptions) *)
RunBegin ==
    /\ phase = "constructed"
    /\ ~runBegun
    /\ runBegun' = TRUE
    /\ IF PreExistingPlan(opts)
       THEN /\ testplanid' = opts.testplanid
            /\ buildid' = opts.buildid
            /\ UNCHANGED <<queue, enq>>
       ELSE LET s == Step("provision", Len(enq) + 1, 0, NoCase, "", <<>>)
            IN  /\ queue' = Append(queue, s)
                /\ enq' = Append(enq, s)
                /\ UNCHANGED <<testplanid, buildid>>
    /\ UNCHANGED <<phase, thrown, opts, testproject, chain, running, calls, errors,
                   skipped, events>>

\* the then-callbacks publishTestResults appends for one title
PublishSteps(title, evKind, tests) ==
    LET ids == titleToCaseIds(title)
    IN  [k \in DOMAIN ids |->
           Step("publish", Len(enq) + k, Len(events) + 1, ids[k], evKind, tests)]

(* faulty variant: the handler calls reportTCResult itself, outside the chain *)
publishTestResultsNow(title, evKind, tests) ==
    LET steps == PublishSteps(title, evKind, tests)
    IN  /\ enq' = enq \o steps
        /\ calls' = calls \o
               [k \in DOMAIN steps |->
                   Call("reportTCResult", steps[k].seq, steps[k].caseId, testplanid,
                        buildid, Undefined, "")]
        /\ UNCHANGED <<phase, thrown, opts, runBegun, testplanid, buildid, testproject,
                       chain, queue, running, errors, skipped>>

(* publishTestResults(title, optionsGen) *)
publishTestResults(title, evKind, tests) ==
    /\ queue' = queue \o PublishSteps(title, evKind, tests)
    /\ enq' = enq \o PublishSteps(title, evKind, tests)
    /\ UNCHANGED <<phase, thrown, opts, runBegun, testplanid, buildid, testproject,
                   chain, running, calls, errors, skipped>>

\* the runner emits a test or suite notification: after run-begin, and within
\* the bounds of the model
Emitted(evKind, title) ==
    /\ phase = "constructed"
    /\ runBegun
    /\ Len(events) < MaxEvents
    /\ Len(enq) + Len(titleToCaseIds(title)) <= MaxCallbacks
    /\ events' = Append(events, [kind |-> evKind, title |-> title])

(* EVENT_TEST_PASS handler *)
TestPass ==
    \E title \in TestTitles :
        /\ Emitted("pass", title)
        /\ publishTestResults(title, "pass", <<>>)

(* EVENT_TEST_FAIL handler *)
TestFail ==
    \E title \in TestTitles :
        /\ Emitted("fail", title)
        /\ publishTestResults(title, "fail", <<>>)

(* EVENT_SUITE_END handler *)
SuiteEnd ==
    \E title \in SuiteTitles, tests \in TestLists :
        /\ Emitted("suite", title)
        /\ publishTestResults(title, "suite", tests)

\* faulty variant: the callback is run at once, not chained on the promise
SettledOrNot(state) == TRUE

\* a then-callback runs once the promise it was chained on has settled
Settled(state) == state # "pending"

\* faulty variant: the newest callback runs first
NewestCallback(q) == Len(q)

\* the then-callback that runs next is the oldest one appended
NextCallback(q) == 1

Remove(q, i) == SubSeq(q, 1, i - 1) \o SubSeq(q, i + 1, Len(q))

(* the promise ahead of the oldest then-callback has settled: the callback
   runs up to its first await (or is bypassed if that promise was rejected) *)
StartStep ==
    /\ phase = "constructed"
    /\ queue # <<>>
    /\ Settled(chain)
    /\ LET i == NextCallback(queue)
           step == queue[i]
           options == optionsGen(step)
       IN  /\ queue' = Remove(queue, i)
           /\ IF chain = "rejected"
              THEN /\ skipped' = skipped + 1
                   /\ errors' = errors + 1
                   /\ chain' = Catch("rejected")
                   /\ UNCHANGED <<running, calls>>
              ELSE /\ chain' = "pending"
                   /\ UNCHANGED <<skipped, errors>>
                   /\ IF step.kind = "provision"
                      THEN /\ running' = [seq |-> step.seq, options |-> NoOpt]
                           /\ calls' = Append(calls,
                                  Call("createTestPlan", step.seq, NoCase, Undefined,
                                       Undefined, Undefined, ""))
                      ELSE /\ running' = [seq |-> step.seq, options |-> options]
                           /\ calls' = Append(calls,
                                  IF testproject # NoProject
                                  THEN Call("addTestCaseToTestPlan", step.seq,
                                            options.testcaseexternalid, testplanid,
                                            Undefined, testproject.id, "")
                                  ELSE Call("reportTCResult", step.seq,
                                            options.testcaseexternalid, options.testplanid,
                                            options.buildid, Undefined, options.status))
    /\ UNCHANGED <<phase, thrown, opts, runBegun, testplanid, buildid, testproject,
                   events, enq>>

(* a call on this.testlink resolves: the awaiting callback continues *)
RemoteResolve ==
    \E i \in InFlight :
        LET c == calls[i] IN
        /\ CASE c.verb = "checkDevKey" ->
                  /\ chain' = "fulfilled"
                  /\ calls' = Settle(i, "ok", Undefined)
                  /\ UNCHANGED <<testplanid, buildid, testproject, running>>
             [] c.verb = "createTestPlan" ->
                  \E id \in PlanIds :
                      /\ testplanid' = id
                      /\ calls' = Append(Settle(i, "ok", id),
                             [Call("createBuild", c.seq, NoCase, id, Undefined,
                                   Undefined, "") EXCEPT !.ctxPlan = id])
                      /\ UNCHANGED <<buildid, testproject, running, chain>>
             [] c.verb = "createBuild" ->
                  \E id \in BuildIds :
                      /\ buildid' = id
                      /\ calls' = Append(Settle(i, "ok", id),
                             [Call("getProjects", c.seq, NoCase, Undefined, Undefined,
                                   Undefined, "") EXCEPT !.ctxBuild = id])
                      /\ UNCHANGED <<testplanid, testproject, running, chain>>
             [] c.verb = "getProjects" ->
                  \E projects \in ProjectLists :
                      /\ testproject' = Find(projects, opts.prefix)
                      /\ calls' = Settle(i, "ok", testproject'.id)
                      /\ chain' = "fulfilled"
                      /\ running' = NoFrame
                      /\ UNCHANGED <<testplanid, buildid>>
             [] c.verb = "addTestCaseToTestPlan" ->
                  /\ calls' = Append(Settle(i, "ok", Undefined),
                         Call("reportTCResult", c.seq,
                              running.options.testcaseexternalid,
                              running.options.testplanid, running.options.buildid,
                              Undefined, running.options.status))
                  /\ UNCHANGED <<testplanid, buildid, testproject, running, chain>>
             [] c.verb = "reportTCResult" ->
                  /\ calls' = Settle(i, "ok", Undefined)
                  /\ chain' = "fulfilled"
                  /\ running' = NoFrame
                  /\ UNCHANGED <<testplanid, buildid, testproject>>
        /\ UNCHANGED <<phase, thrown, opts, runBegun, queue, errors, skipped, events, enq>>

(* faulty variant: a rejected addTestCaseToTestPlan is swallowed inside the
   callback, which goes on to reportTCResult *)
RemoteRejectContinues ==
    \E i \in InFlight :
        /\ errors < MaxFailures
        /\ errors' = errors + 1
        /\ IF calls[i].verb = "addTestCaseToTestPlan"
           THEN /\ calls' = Append(Settle(i, "err", Undefined),
                        Call("reportTCResult", calls[i].seq,
                             running.options.testcaseexternalid,
                             running.options.testplanid, running.options.buildid,
                             Undefined, running.options.status))
                /\ UNCHANGED <<running, chain>>
           ELSE /\ calls' = Settle(i, "err", Undefined)
                /\ chain' = Catch("rejected")
                /\ running' = NoFrame
        /\ UNCHANGED <<phase, thrown, opts, runBegun, testplanid, buildid, testproject,
                       queue, skipped, events, enq>>

(* a call on this.testlink rejects: the awaiting callback throws, and the
   .catch(console.error) behind it logs the error *)
RemoteReject ==
    \E i \in InFlight :
        /\ errors < MaxFailures
        /\ calls' = Settle(i, "err", Undefined)
        /\ errors' = errors + 1
        /\ chain' = Catch("rejected")
        /\ running' = NoFrame
        /\ UNCHANGED <<phase, thrown, opts, runBegun, testplanid, buildid, testproject,
                       queue, skipped, events, enq>>

Next ==
    \/ Construct
    \/ RunBegin
    \/ TestPass
    \/ TestFail
    \/ SuiteEnd
    \/ StartStep
    \/ RemoteResolve
    \/ RemoteReject

Spec == Init /\ [][Next]_vars

(* a then-callback runs once the promise ahead of it has settled (the
   microtask queue), and every call on this.testlink eventually settles; the
   runner is under no obligation to emit anything *)
FairSpec ==
    /\ Spec
    /\ WF_vars(StartStep)
    /\ WF_vars(RemoteResolve \/ RemoteReject)

----------------------------------------------------------------------------
(* Suites of every composition: the reporter right after its first
   EVENT_SUITE_END, with a supplied plan and build, checkDevKey resolved *)

TestStates == {STATE_PASSED, STATE_FAILED, STATE_PENDING}
SuiteTestLists == UNION {[1..n -> TestStates] : n \in 0..MaxTests}

SuiteInit ==
    \E tests \in SuiteTestLists :
        LET ids == titleToCaseIds(TitleDup)
            steps == [k \in DOMAIN ids |->
                        [kind |-> "publish", seq |-> k, ev |-> 1, caseId |-> ids[k],
                         evKind |-> "suite", tests |-> tests,
                         enqPlan |-> 14, enqBuild |-> 3]]
        IN  /\ phase = "constructed"
            /\ thrown = ""
            /\ opts = [given |-> TRUE, URL |-> "http://tl", apiKey |-> "key",
                       testplanid |-> 14, buildid |-> 3, prefix |-> NoString]
            /\ runBegun = TRUE
            /\ testplanid = 14
            /\ buildid = 3
            /\ testproject = NoProject
            /\ chain = "fulfilled"
            /\ queue = steps
            /\ running = NoFrame
            /\ calls = <<[verb |-> "checkDevKey", seq |-> 0, caseId |-> NoCase,
                          plan |-> Undefined, build |-> Undefined,
                          project |-> Undefined, status |-> "", outcome |-> "ok",
                          ret |-> Undefined, ctxPlan |-> Undefined,
                          ctxBuild |-> Undefined]>>
            /\ errors = 0
            /\ skipped = 0
            /\ events = <<[kind |-> "suite", title |-> TitleDup]>>
            /\ enq = steps

SuiteNext ==
    \/ StartStep
    \/ RemoteResolve
    \/ RemoteReject

SuiteSpec == SuiteInit /\ [][SuiteNext]_vars

----------------------------------------------------------------------------
(* Properties *)

IsReport(c) == c.verb = "reportTCResult"
IsAddCase(c) == c.verb = "addTestCaseToTestPlan"
ReportCalls == {i \in DOMAIN calls : IsReport(calls[i])}
CheckPending == phase = "constructed" /\ calls[1].outcome = "pending"
SomeRejected == \E i \in DOMAIN calls : calls[i].outcome = "err"

\* C1: reportTCResult calls are made in the order their callbacks were appended
\* (event order, then order of the case ids in the title), and no callback
\* appended before a call's callback is still waiting when that call is made.
C1_ReportsInEnqueueOrder ==
    /\ \A i, j \in ReportCalls :
          i < j =>
            /\ calls[i].seq < calls[j].seq
            /\ enq[calls[i].seq].ev <= enq[calls[j].seq].ev
    /\ \A i \in DOMAIN calls, k \in DOMAIN queue : calls[i].seq < queue[k].seq

C1_Witness ==
    \E i, j \in ReportCalls :
        /\ i < j
        /\ enq[calls[i].seq].ev < enq[calls[j].seq].ev
        /\ \E k \in ReportCalls : k < i /\ enq[calls[k].seq].ev = enq[calls[i].seq].ev

\* C2: at most one call on the reporting client is in flight, and calls are in
\* flight only while the chain is pending.
C2_OneInFlight ==
    /\ Cardinality(InFlight) <= 1
    /\ (InFlight # {} => chain = "pending")

C2_Witness ==
    /\ InFlight # {}
    /\ Len(queue) >= 2
    /\ SomeRejected

\* C3: a rejection is caught: the chain is never left rejected, no callback is
\* bypassed, and whenever no call is in flight the chain is fulfilled, so the
\* oldest waiting callback runs.
C3_RejectionCaught ==
    /\ chain # "rejected"
    /\ skipped = 0
    /\ (phase = "constructed" /\ InFlight = {} => chain = "fulfilled")
    /\ errors = Cardinality({i \in DOMAIN calls : calls[i].outcome = "err"})

C3_Witness ==
    \E i, j \in DOMAIN calls :
        /\ i < j
        /\ calls[i].outcome = "err"
        /\ calls[i].seq < calls[j].seq
        /\ calls[j].outcome = "ok"

\* C4 (as claimed): callbacks appended while checkDevKey has not settled are
\* not held back by it.
C4_NotHeldBackByPendingCheck ==
    (CheckPending /\ queue # <<>>) => Settled(chain)

\* C4 (amended): while checkDevKey is pending no other call is made; once it
\* has settled, resolved or rejected, the chain is fulfilled and the appended
\* callbacks run.
C4_SentOnceCheckSettled ==
    /\ (CheckPending => Len(calls) = 1 /\ chain = "pending")
    /\ (phase = "constructed" /\ ~CheckPending /\ Len(calls) = 1 => chain = "fulfilled")

C4_Witness ==
    /\ phase = "constructed"
    /\ calls[1].outcome = "err"
    /\ \E i \in DOMAIN calls : calls[i].verb = "createTestPlan"
    /\ \E i \in ReportCalls : calls[i].outcome = "ok"

\* C5 (as claimed): a reportTCResult call carries the testplanid and buildid
\* the reporter held when its callback was appended.
C5_IdsAsAtEnqueue ==
    \A i \in ReportCalls :
        /\ calls[i].plan = enq[calls[i].seq].enqPlan
        /\ calls[i].build = enq[calls[i].seq].enqBuild

\* C5 (amended): a reportTCResult call carries the testplanid and buildid the
\* reporter holds when the call is made.
C5_IdsAsAtSubmission ==
    \A i \in ReportCalls :
        /\ calls[i].plan = calls[i].ctxPlan
        /\ calls[i].build = calls[i].ctxBuild

C5_Witness ==
    \E i \in ReportCalls :
        /\ calls[i].plan # enq[calls[i].seq].enqPlan
        /\ calls[i].build # enq[calls[i].seq].enqBuild
        /\ calls[i - 1].verb = "addTestCaseToTestPlan"

\* C6: the constructor throws exactly when URL is absent, apiKey is absent, or
\* neither the pair testplanid and buildid nor prefix is supplied.
C6_ValidationIff ==
    phase # "new" =>
        ((phase = "error") <=>
            \/ opts.URL = NoString
            \/ opts.apiKey = NoString
            \/ /\ ~(opts.testplanid # Undefined /\ opts.buildid # Undefined)
               /\ opts.prefix = NoString)

C6_Witness ==
    /\ phase = "constructed"
    /\ opts.testplanid = Undefined
    /\ opts.buildid = Undefined
    /\ opts.prefix # NoString

AutoProvision == phase = "constructed" /\ opts.testplanid = Undefined
ProvisionCalls == {"createTestPlan", "createBuild", "getProjects"}
Provisioned ==
    \E i \in DOMAIN calls : calls[i].verb = "getProjects" /\ calls[i].outcome = "ok"

\* C7: with no testplanid supplied and no call rejected, the calls after
\* checkDevKey are createTestPlan, createBuild, getProjects in that order, the
\* per-case calls come after them, and every reportTCResult is immediately
\* preceded by the addTestCaseToTestPlan of the same case.
C7_ProvisionThenAddThenReport ==
    (AutoProvision /\ ~SomeRejected) =>
        /\ Len(calls) >= 2 => calls[2].verb = "createTestPlan"
        /\ Len(calls) >= 3 => calls[3].verb = "createBuild"
        /\ Len(calls) >= 4 => calls[4].verb = "getProjects"
        /\ \A i \in DOMAIN calls : i > 4 => calls[i].verb \notin ProvisionCalls
        /\ \A i \in ReportCalls :
              /\ IsAddCase(calls[i - 1])
              /\ calls[i - 1].caseId = calls[i].caseId
              /\ calls[i - 1].seq = calls[i].seq

\* the same with the project found by getProjects (kept to locate the failure)
C7_WhenProjectFound ==
    (testproject # NoProject \/ ~Provisioned) => C7_ProvisionThenAddThenReport

\* C8: after a provisioning in which no call rejected, every reportTCResult and
\* addTestCaseToTestPlan call carries the plan id createTestPlan returned, and
\* every reportTCResult the build id createBuild returned.
C8_ProvisionedIdsCarried ==
    (AutoProvision /\ Provisioned) =>
        \A i \in DOMAIN calls :
            /\ (IsReport(calls[i]) \/ IsAddCase(calls[i])) =>
                  /\ calls[2].verb = "createTestPlan"
                  /\ calls[i].plan = calls[2].ret
                  /\ calls[i].plan \in PlanIds
            /\ IsReport(calls[i]) =>
                  /\ calls[3].verb = "createBuild"
                  /\ calls[i].build = calls[3].ret
                  /\ calls[i].build \in BuildIds

C8_Witness ==
    /\ AutoProvision
    /\ Provisioned
    /\ \E i \in ReportCalls :
          /\ enq[calls[i].seq].enqPlan = Undefined
          /\ calls[i].outcome = "ok"

\* C9: with a testplanid supplied, run-begin adopts the supplied testplanid and
\* buildid, the only calls ever made are checkDevKey and reportTCResult, and
\* every reportTCResult carries the supplied testplanid and buildid.
C9_PreExistingPlanNoProvisioning ==
    (phase = "constructed" /\ opts.testplanid # Undefined) =>
        /\ \A i \in DOMAIN calls : calls[i].verb \in {"checkDevKey", "reportTCResult"}
        /\ runBegun => (testplanid = opts.testplanid /\ buildid = opts.buildid)
        /\ ~runBegun => Len(calls) = 1
        /\ \A i \in ReportCalls :
              /\ calls[i].plan = opts.testplanid
              /\ calls[i].build = opts.buildid

C9_Witness ==
    /\ phase = "constructed"
    /\ opts.testplanid # Undefined
    /\ opts.buildid = Undefined
    /\ \E i \in ReportCalls : calls[i].outcome = "ok"

\* the case ids the title convention gives for the titles of the model
ExpectedIds(title) ==
    CASE title = TitleMalformed -> <<>>
      [] title = TitleTwo -> << <<"A", "_", "-", "1", "2">>, <<"7", "-", "2">> >>
      [] title = TitleDup -> << <<"B", "-", "2">>, <<"B", "-", "2">> >>

EnqueuedFor(e) ==
    LET of == SelectSeq(enq, LAMBDA s : s.ev = e)
    IN  [k \in DOMAIN of |-> of[k].caseId]

\* C10: each notification appends exactly one callback per case id of its
\* title, in order of appearance and with repetitions kept; a title with no
\* case id appends nothing; a callback makes at most one reportTCResult call,
\* for its own case id, and per-case calls are made by these callbacks only.
C10_OneSubmissionPerCaseId ==
    /\ \A e \in DOMAIN events : EnqueuedFor(e) = ExpectedIds(events[e].title)
    /\ \A k \in DOMAIN enq : enq[k].seq = k /\ enq[k].ev \in 0..Len(events)
    /\ \A i, j \in ReportCalls : i # j => calls[i].seq # calls[j].seq
    /\ \A i \in ReportCalls : calls[i].caseId = enq[calls[i].seq].caseId
    /\ \A i \in DOMAIN calls :
          /\ calls[i].seq \in 0..Len(enq)
          /\ (IsReport(calls[i]) \/ IsAddCase(calls[i])) =>
                enq[calls[i].seq].kind = "publish"

C10_Witness ==
    /\ \E e \in DOMAIN events : events[e].title = TitleMalformed
    /\ \E i, j \in ReportCalls :
          /\ i < j
          /\ calls[i].caseId = calls[j].caseId
          /\ enq[calls[i].seq].ev = enq[calls[j].seq].ev

SuiteReports == {i \in ReportCalls : enq[calls[i].seq].evKind = "suite"}

\* C11: the status of a suite result is failed exactly when some constituent
\* test is in a state other than passed, and passed otherwise; a suite without
\* tests is reported passed.
C11_SuiteStatus ==
    \A i \in SuiteReports :
        LET tests == enq[calls[i].seq].tests
        IN  /\ calls[i].status \in {FAILED, PASSED}
            /\ (calls[i].status = FAILED) <=>
                  (\E k \in DOMAIN tests : tests[k] # STATE_PASSED)
            /\ (tests = <<>> => calls[i].status = PASSED)

C11_Witness ==
    /\ \E i \in SuiteReports :
          /\ enq[calls[i].seq].tests = <<>>
          /\ calls[i].status = PASSED
          /\ calls[i].outcome = "ok"
    /\ Cardinality(SuiteReports) = 2

AddCaseCalls == {i \in DOMAIN calls : IsAddCase(calls[i])}
RejectedAddCase == {i \in AddCaseCalls : calls[i].outcome = "err"}
Idle == queue = <<>> /\ Settled(chain) /\ InFlight = {}

\* C12 as stated: once addTestCaseToTestPlan of a case has rejected, the
\* reportTCResult of the same callback is the next call made (it has been made
\* as soon as a later call exists or nothing is left to run).
C12_ReportSentAfterAddRejected ==
    \A i \in RejectedAddCase :
        (i < Len(calls) \/ Idle) =>
            /\ i < Len(calls)
            /\ IsReport(calls[i + 1])
            /\ calls[i + 1].seq = calls[i].seq

\* C12: addTestCaseToTestPlan and reportTCResult of a case are made by one
\* callback, the report only after the add resolved: a rejected add is never
\* followed by the report of the same callback, the rejection is caught and the
\* next call, if any, belongs to a later callback; a resolved add is followed at
\* once by the report of the same callback.
C12_ReportOnlyAfterAddResolved ==
    /\ \A i \in RejectedAddCase :
          /\ \A j \in ReportCalls : calls[j].seq # calls[i].seq
          /\ chain # "rejected"
          /\ i < Len(calls) => calls[i + 1].seq > calls[i].seq
    /\ \A i \in AddCaseCalls :
          calls[i].outcome = "ok" =>
              /\ i < Len(calls)
              /\ IsReport(calls[i + 1])
              /\ calls[i + 1].seq = calls[i].seq
              /\ calls[i + 1].caseId = calls[i].caseId

C12_Witness ==
    \E i \in RejectedAddCase :
        /\ i < Len(calls)
        /\ IsAddCase(calls[i + 1])
        /\ calls[i + 1].outcome = "ok"
        /\ Idle

RejectedProvision ==
    {i \in DOMAIN calls : calls[i].verb \in ProvisionCalls /\ calls[i].outcome = "err"}

\* C13: once createTestPlan, createBuild or getProjects has rejected, no further
\* provisioning call is made, the chain is not left rejected, no callback is
\* bypassed, and when the chain has gone idle every publish callback appended
\* (all of them come after the provisioning callback) has made its call.
C13_ProvisioningHaltsRunGoesOn ==
    \A i \in RejectedProvision :
        /\ \A j \in DOMAIN calls : j > i => calls[j].verb \notin ProvisionCalls
        /\ chain # "rejected"
        /\ skipped = 0
        /\ Idle =>
              \A k \in DOMAIN enq :
                  enq[k].kind = "publish" =>
                      \E j \in DOMAIN calls : j > i /\ calls[j].seq = enq[k].seq

C13_Witness ==
    \E i \in RejectedProvision :
        /\ calls[i].verb = "createBuild"
        /\ Idle
        /\ \E k \in DOMAIN enq : enq[k].kind = "publish"
        /\ \E j \in ReportCalls : j > i /\ calls[j].outcome = "ok"

\* C14: after createTestPlan, createBuild or getProjects has rejected, no
\* reportTCResult and no addTestCaseToTestPlan call is made.
C14_NothingSentAfterFailedProvisioning ==
    \A i \in RejectedProvision :
        \A j \in DOMAIN calls :
            j > i => ~IsReport(calls[j]) /\ ~IsAddCase(calls[j])

\* the part of C14 the code keeps: no addTestCaseToTestPlan after a rejection
C14_NoAddCaseAfterFailedProvisioning ==
    \A i \in RejectedProvision :
        \A j \in DOMAIN calls : j > i => ~IsAddCase(calls[j])

PerCaseCalls == ReportCalls \cup AddCaseCalls

\* C15: the run context is never seen partially updated: whenever a per-case
\* call is made with a plan id in the context, the context holds a build id too.
C15_NeverSeenPartiallyUpdated ==
    \A i \in PerCaseCalls :
        calls[i].ctxPlan # Undefined => calls[i].ctxBuild # Undefined

\* the part of C15 the code keeps: a field of the context, once set, never
\* changes, and it is set only by the run-begin handler or by a resolving
\* createTestPlan, createBuild or getProjects call
C15_WrittenOnlyByRunBeginAndProvisioning ==
    [][/\ testplanid # Undefined => testplanid' = testplanid
       /\ buildid # Undefined => buildid' = buildid
       /\ testproject # NoProject => testproject' = testproject
       /\ <<testplanid, buildid, testproject>>' # <<testplanid, buildid, testproject>> =>
             \/ ~runBegun /\ runBegun'
             \/ \E i \in InFlight : /\ calls[i].verb \in ProvisionCalls
                                    /\ calls'[i].outcome = "ok"]_vars

\* C16: a step of a notification handler (run-begin, test-pass, test-fail,
\* suite-end) makes no call on the client, leaves the chain's state and the
\* running callback alone, and only appends to the waiting callbacks; it is
\* taken whatever the chain is doing.
C16_HandlersOnlyAppend ==
    [][(runBegun' # runBegun \/ events' # events) =>
          /\ calls' = calls
          /\ chain' = chain
          /\ running' = running
          /\ errors' = errors /\ skipped' = skipped
          /\ Len(queue') >= Len(queue)
          /\ SubSeq(queue', 1, Len(queue)) = queue]_vars

\* handlers have run and appended callbacks while checkDevKey was in flight
C16_Witness ==
    /\ CheckPending
    /\ runBegun
    /\ Len(events) = MaxEvents
    /\ Len(queue) >= 3
    /\ Len(calls) = 1

BothSupplied == Truthy(opts.testplanid) /\ Truthy(opts.buildid)
ProvisioningAppended == \E k \in DOMAIN enq : enq[k].kind = "provision"

\* C17: for accepted options, the run-begin handler appends the provisioning
\* callback exactly when testplanid and buildid were not both supplied, and once
\* it has run (and, where provisioning was appended, getProjects has resolved)
\* the context holds a plan id and a build id.
C17_BothIdsDefinedAfterRunBegin ==
    (phase = "constructed" /\ runBegun) =>
        /\ ProvisioningAppended <=> ~BothSupplied
        /\ (~ProvisioningAppended \/ Provisioned) =>
              (testplanid # Undefined /\ buildid # Undefined)

\* the part of C17 the code keeps: the ids are defined when both were supplied
\* and when provisioning was appended and went through
C17_WhenBothSuppliedOrProvisioned ==
    (phase = "constructed" /\ runBegun /\ (BothSupplied \/ Provisioned)) =>
        (testplanid # Undefined /\ buildid # Undefined)

\* C18: once getProjects has resolved, the context holds a project, and while
\* no call has rejected every reportTCResult comes right after the
\* addTestCaseToTestPlan of the same callback, whatever list getProjects returned.
C18_ProjectResolvedAfterProvisioning ==
    Provisioned =>
        /\ testproject # NoProject
        /\ ~SomeRejected =>
              \A j \in ReportCalls :
                  IsAddCase(calls[j - 1]) /\ calls[j - 1].seq = calls[j].seq

Started(k) ==
    /\ \A q \in DOMAIN queue : queue[q].seq # k
    /\ \E j \in DOMAIN calls : calls[j].seq = k

Drained ==
    /\ Idle
    /\ chain = "fulfilled"
    /\ running = NoFrame
    /\ \A k \in DOMAIN enq : Started(enq[k].seq)

\* C19: when the callbacks run as their promises settle and every call on the
\* client settles, the chain drains: from some point on every callback ever
\* appended has been started, nothing waits, nothing runs, no call is in flight
\* and the chain is fulfilled.
C19_QueueDrains == <>[]Drained

C19_Witness ==
    /\ Drained
    /\ SomeRejected
    /\ Len(events) = MaxEvents
    /\ Len(enq) >= 4
====
